---- MODULE Spec2Model ----
(***************************************************************************)
(* Model of trust.py: the trust-score certification pipeline.              *)
(*                                                                         *)
(* Representation.  A Python str is a sequence of one-character strings.   *)
(* A Python int is arbitrary precision; it is represented by its canonical *)
(* big-endian sequence of base-16 digit values (no leading zero, zero is   *)
(* the empty sequence), so that 80-bit and 254-bit values keep their exact *)
(* value.  A call that may raise returns [ok, val]; an optional value is a *)
(* sequence of length 0 (None / not yet assigned) or 1.                    *)
(***************************************************************************)
EXTENDS Integers, Sequences, FiniteSets, TLC

VARIABLES
    pc,                       \* position in main / in the method under test
    target_contract_address,  \* main's argument
    stats,                    \* <<Stats>> once constructed
    parts,                    \* <<(part1, part2)>> returned by split_address
    params,                   \* <<vector>> returned by to_zkvm_input
    proverCalls,              \* number of `zokrates compute-witness` invocations
    proverArgs,               \* <<vector>> handed to the prover
    proverLog,                \* what each docker command of the run answered
    computation,              \* <<Computation>> returned by Docker.get_results
    other_inputs,             \* <<Inputs>> built at main lines 352-357
    txCount,                  \* number of send_raw_transaction that went out
    txArgs,                   \* <<(proof, inputs)>> carried by the transaction
    txStatus,                 \* <<status>> of the receipt
    callArgs,                 \* <<(proof, inputs)>> of the read-only call
    callResult,               \* <<bool>> answered by the read-only call
    signed_tx,                \* <<(proof, inputs)>> of the built, signed transaction
    receipt,                  \* <<bool>>: main's variable `receipt`
    certified,                \* <<bool>> printed as "Certified: ..."
    err                       \* "" or the exception that ended the run

vars == <<pc, target_contract_address, stats, parts, params, proverCalls,
          proverArgs, computation, other_inputs, txCount, txArgs, txStatus,
          callArgs, callResult, signed_tx, receipt, certified, err,
          proverLog>>

(***************************************************************************)
(* Bounds of the model.                                                    *)
(***************************************************************************)
\* Every address string over ShortAlphabet of length 0..MaxShortLen is tried.
MaxShortLen == 3

(***************************************************************************)
(* Python int and int(x, 16)                                               *)
(***************************************************************************)
HexChars == <<"0", "1", "2", "3", "4", "5", "6", "7", "8", "9",
              "a", "b", "c", "d", "e", "f">>

IsHexChar(c) == \E i \in 1..Len(HexChars) : HexChars[i] = c

DigitValue(c) == (CHOOSE i \in 1..Len(HexChars) : HexChars[i] = c) - 1

\* The canonical form of a digit sequence: leading zeros carry no value.
Normalize(d) ==
    IF \A i \in 1..Len(d) : d[i] = 0
    THEN << >>
    ELSE LET first == CHOOSE i \in 1..Len(d) :
                          d[i] # 0 /\ \A j \in 1..(i - 1) : d[j] = 0
         IN  SubSeq(d, first, Len(d))

Raise == [ok |-> FALSE, val |-> << >>]

Return(v) == [ok |-> TRUE, val |-> v]

\* int(x, 16) accepts an optional "0x" prefix before the digits.
StripPrefix(s) ==
    IF Len(s) >= 2 /\ s[1] = "0" /\ s[2] = "x" THEN SubSeq(s, 3, Len(s)) ELSE s

\* int(s, 16): ValueError on an empty or non-hexadecimal literal.
PyInt16(s) ==
    LET body == StripPrefix(s) IN
    IF body = << >> \/ \E i \in 1..Len(body) : ~IsHexChar(body[i])
    THEN Raise
    ELSE Return(Normalize([i \in 1..Len(body) |-> DigitValue(body[i])]))

\* int(b) of a bool
PyIntBool(b) == IF b THEN <<1>> ELSE << >>

\* The Python int with the value of the (small) natural number n.
RECURSIVE PyNat(_)
PyNat(n) == IF n = 0 THEN << >> ELSE Append(PyNat(n \div 16), n % 16)

\* a < b on Python ints (non-negative).
IntLess(a, b) ==
    \/ Len(a) < Len(b)
    \/ /\ Len(a) = Len(b)
       /\ \E i \in 1..Len(a) :
              /\ a[i] < b[i]
              /\ \A j \in 1..(i - 1) : a[j] = b[j]

\* Inputs.get_normalized_score: BN128_PRIME =
\* 21888242871839275222246405745257275088548364400416034343698204186575808495617
\* = 0x30644e72e131a029b85045b68181585d2833e84879b9709143e1f593f0000001
BN128_PRIME ==
    <<3, 0, 6, 4, 4, 14, 7, 2, 14, 1, 3, 1, 10, 0, 2, 9,
      11, 8, 5, 0, 4, 5, 11, 6, 8, 1, 8, 1, 5, 8, 5, 13,
      2, 8, 3, 3, 14, 8, 4, 8, 7, 9, 11, 9, 7, 0, 9, 1,
      4, 3, 14, 1, 15, 5, 9, 3, 15, 0, 0, 0, 0, 0, 0, 1>>

(***************************************************************************)
(* Stats                                                                   *)
(***************************************************************************)
\* split_address with the second slice starting one character late.
split_address_OffByOne(self) ==
    LET size == Len(self.contract_address)
        middle == size \div 2
        address_part1 == PyInt16(SubSeq(self.contract_address, 1, middle))
        address_part2 == PyInt16(SubSeq(self.contract_address, middle + 2, size))
    IN  IF address_part1.ok /\ address_part2.ok
        THEN Return(<<address_part1.val, address_part2.val>>)
        ELSE Raise

\* split_address refusing every address that is not 40 characters long.
split_address_Only40(self) ==
    LET size == Len(self.contract_address)
        middle == size \div 2
        address_part1 == PyInt16(SubSeq(self.contract_address, 1, middle))
        address_part2 == PyInt16(SubSeq(self.contract_address, middle + 1, size))
    IN  IF size = 40 /\ address_part1.ok /\ address_part2.ok
        THEN Return(<<address_part1.val, address_part2.val>>)
        ELSE Raise

\* Stats.split_address
split_address(self) ==
    LET size == Len(self.contract_address)
        middle == size \div 2
        address_part1 == PyInt16(SubSeq(self.contract_address, 1, middle))
        address_part2 == PyInt16(SubSeq(self.contract_address, middle + 1, size))
    IN  IF address_part1.ok /\ address_part2.ok
        THEN Return(<<address_part1.val, address_part2.val>>)
        ELSE Raise

\* to_zkvm_input with volume and market_cap in each other's place.
to_zkvm_input_Swapped(self) ==
    LET size == Len(self.contract_address)
        middle == size \div 2
        address_part1 == PyInt16(SubSeq(self.contract_address, 1, middle))
        address_part2 == PyInt16(SubSeq(self.contract_address, middle + 1, size))
    IN  IF ~(address_part1.ok /\ address_part2.ok)
        THEN Raise
        ELSE Return(<<address_part1.val,
                      address_part2.val,
                      self.days_ago_added,
                      PyIntBool(self.is_active),
                      self.market_cap,
                      self.volume,
                      self.total_supply,
                      PyIntBool(self.has_source_code)>>)

\* Stats.to_zkvm_input
to_zkvm_input(self) ==
    LET sp == split_address(self) IN
    IF ~sp.ok
    THEN Raise
    ELSE Return(<<sp.val[1],
                  sp.val[2],
                  self.days_ago_added,
                  PyIntBool(self.is_active),
                  self.volume,
                  self.market_cap,
                  self.total_supply,
                  PyIntBool(self.has_source_code)>>)

(***************************************************************************)
(* Inputs of the model                                                     *)
(***************************************************************************)
Zeros(n) == [i \in 1..n |-> "0"]

ShortAlphabet == {"0", "1", "x"}

ShortAddresses ==
    UNION {[1..n -> ShortAlphabet] : n \in 0..MaxShortLen}

FreeDigits == {"0", "1", "f"}

\* 40 hexadecimal digits; the digits next to the ends and to the middle vary.
Addresses40 ==
    {<<d1>> \o Zeros(18) \o <<d20, d21>> \o Zeros(18) \o <<d40>> :
        <<d1, d20, d21, d40>> \in FreeDigits \X FreeDigits \X FreeDigits \X FreeDigits}

\* "0x" followed by 40 digits, the usual way an address is written.
AddressesPrefixed == {<<"0", "x">> \o Zeros(39) \o <<d>> : d \in {"1", "f"}}

\* 38 digits
Address38 == Zeros(37) \o <<"1">>

Addresses ==
    ShortAddresses \cup Addresses40 \cup AddressesPrefixed \cup {Address38}

\* 2^64, a total supply that does not fit 64 bits
TwoTo64 == <<1>> \o [i \in 1..16 |-> 0]

AllStats ==
    [contract_address : Addresses,
     has_source_code  : BOOLEAN,
     total_supply     : {PyNat(1000), TwoTo64},
     name             : {"Lombard Bitcoin", "Other"},
     symbol           : {"LBTC"},
     days_ago_added   : {PyNat(0), PyNat(10)},
     is_active        : BOOLEAN,
     volume           : {PyNat(500)},
     market_cap       : {PyNat(2000)}]

(***************************************************************************)
(* The Stats methods called on their own                                   *)
(***************************************************************************)
EncInit ==
    /\ pc = "idle"
    /\ stats \in {<<s>> : s \in AllStats}
    /\ target_contract_address = stats[1].contract_address
    /\ parts = << >>
    /\ params = << >>
    /\ proverCalls = 0
    /\ proverArgs = << >>
    /\ computation = << >>
    /\ other_inputs = << >>
    /\ txCount = 0
    /\ txArgs = << >>
    /\ txStatus = << >>
    /\ callArgs = << >>
    /\ callResult = << >>
    /\ signed_tx = << >>
    /\ receipt = << >>
    /\ certified = << >>
    /\ err = ""
    /\ proverLog = << >>

CallSplitAddress ==
    /\ pc = "idle"
    /\ LET r == split_address(stats[1]) IN
       IF r.ok
       THEN /\ parts' = <<r.val>>
            /\ pc' = "split_returned"
            /\ err' = err
       ELSE /\ parts' = parts
            /\ pc' = "raised"
            /\ err' = "ValueError"
    /\ UNCHANGED <<target_contract_address, stats, params, proverCalls,
                   proverArgs, computation, other_inputs, txCount, txArgs,
                   txStatus, callArgs, callResult, signed_tx, receipt,
                   certified,
                   proverLog>>

CallToZkvmInput ==
    /\ pc = "idle"
    /\ LET r == to_zkvm_input(stats[1]) IN
       IF r.ok
       THEN /\ params' = <<r.val>>
            /\ pc' = "encoded"
            /\ err' = err
       ELSE /\ params' = params
            /\ pc' = "raised"
            /\ err' = "ValueError"
    /\ UNCHANGED <<target_contract_address, stats, parts, proverCalls,
                   proverArgs, computation, other_inputs, txCount, txArgs,
                   txStatus, callArgs, callResult, signed_tx, receipt,
                   certified,
                   proverLog>>

EncNext == CallSplitAddress \/ CallToZkvmInput

EncSpec == EncInit /\ [][EncNext]_vars

(***************************************************************************)
(* Proof, Inputs                                                           *)
(***************************************************************************)
\* Proof.to_solidity: every element goes through int(x, 16).
Proof_to_solidity(self) ==
    LET a1 == PyInt16(self.a[1])
        a2 == PyInt16(self.a[2])
        b11 == PyInt16(self.b[1][1])
        b12 == PyInt16(self.b[1][2])
        b21 == PyInt16(self.b[2][1])
        b22 == PyInt16(self.b[2][2])
        c1 == PyInt16(self.c[1])
        c2 == PyInt16(self.c[2])
    IN  IF \A r \in {a1, a2, b11, b12, b21, b22, c1, c2} : r.ok
        THEN Return(<< <<a1.val, a2.val>>,
                       << <<b11.val, b12.val>>, <<b21.val, b22.val>> >>,
                       <<c1.val, c2.val>> >>)
        ELSE Raise

\* Inputs.to_solidity
Inputs_to_solidity(self) ==
    <<self.score, self.signature, self.address_part1, self.address_part2>>

\* The arguments of contract.functions.verifyTx(proof.to_solidity(), inputs.to_solidity())
verifyTx_args(inputs, proof) ==
    LET p == Proof_to_solidity(proof) IN
    IF p.ok
    THEN Return([proof |-> p.val, inputs |-> Inputs_to_solidity(inputs)])
    ELSE Raise

\* The ABI encodes each public input as a uint256.
IsUint256(n) == Len(n) <= 64

(***************************************************************************)
(* What the prover may write to proof.json                                 *)
(***************************************************************************)
\* A field element as ZoKrates prints it: "0x" and 64 zero-padded digits.
Hex64(n) ==
    <<"0", "x">> \o Zeros(IF Len(n) < 64 THEN 64 - Len(n) ELSE 0)
                 \o [i \in 1..Len(n) |-> HexChars[n[i] + 1]]

NotHex == <<"0", "x", "1", "g">>

GoodProof ==
    [a |-> <<Hex64(PyNat(1)), Hex64(PyNat(2))>>,
     b |-> << <<Hex64(PyNat(3)), Hex64(PyNat(4))>>,
              <<Hex64(PyNat(5)), Hex64(PyNat(6))>> >>,
     c |-> <<Hex64(PyNat(7)), Hex64(PyNat(8))>>]

BadProof == [GoodProof EXCEPT !.c = <<Hex64(PyNat(7)), NotHex>>]

ScoreStrings == {Hex64(PyNat(700)), Hex64(BN128_PRIME), Hex64(BN128_PRIME \o <<0>>), NotHex}

SignatureStrings == {Hex64(PyNat(9))}

\* The prover either echoes the address halves it was given or claims others.
AddressStrings(vector) ==
    {<<Hex64(vector[1]), Hex64(vector[2])>>, <<Hex64(PyNat(5)), Hex64(PyNat(6))>>}

ProverDocuments(vector) ==
    {[curve |-> "bn128", scheme |-> "g16", proof |-> p,
      inputs |-> <<sc, sg, ad[1], ad[2]>>] :
        p \in {GoodProof, BadProof}, sc \in ScoreStrings,
        sg \in SignatureStrings, ad \in AddressStrings(vector)}

(***************************************************************************)
(* main                                                                    *)
(***************************************************************************)
\* The addresses main is run with.
MainAddresses ==
    ShortAddresses \cup AddressesPrefixed \cup {Address38}
        \cup {a \in Addresses40 : a[20] = "0" /\ a[21] = "0"}

Init ==
    /\ pc = "main"
    /\ target_contract_address \in MainAddresses
    /\ stats = << >>
    /\ parts = << >>
    /\ params = << >>
    /\ proverCalls = 0
    /\ proverArgs = << >>
    /\ computation = << >>
    /\ other_inputs = << >>
    /\ txCount = 0
    /\ txArgs = << >>
    /\ txStatus = << >>
    /\ callArgs = << >>
    /\ callResult = << >>
    /\ signed_tx = << >>
    /\ receipt = << >>
    /\ certified = << >>
    /\ err = ""
    /\ proverLog = << >>

\* An exception leaves main: nothing catches it.
Fail(kind) ==
    /\ pc' = "error"
    /\ err' = kind

\* main lines 297-302
MainAssert ==
    /\ pc = "main"
    /\ IF target_contract_address = << >>
       THEN Fail("AssertionError")
       ELSE pc' = "fetch" /\ err' = err
    /\ UNCHANGED <<target_contract_address, stats, parts, params, proverCalls,
                   proverArgs, computation, other_inputs, txCount, txArgs,
                   txStatus, callArgs, callResult, signed_tx, receipt,
                   certified,
                   proverLog>>

\* The Stats main can build from the providers' answers for this address.
FetchedStats(address) ==
    [contract_address : {address},
     has_source_code  : BOOLEAN,
     total_supply     : {PyNat(1000)},
     name             : {"Lombard Bitcoin"},
     symbol           : {"LBTC"},
     days_ago_added   : {PyNat(10)},
     is_active        : {TRUE},
     volume           : {PyNat(500)},
     market_cap       : {PyNat(2000)}]

\* main lines 304-344: the providers answer, or a lookup in an answer raises.
FetchFacts ==
    /\ pc = "fetch"
    /\ \/ /\ Fail("ProviderError")
          /\ stats' = stats
       \/ /\ \E s \in FetchedStats(target_contract_address) : stats' = <<s>>
          /\ pc' = "compute"
          /\ err' = err
    /\ UNCHANGED <<target_contract_address, parts, params, proverCalls,
                   proverArgs, computation, other_inputs, txCount, txArgs,
                   txStatus, callArgs, callResult, signed_tx, receipt,
                   certified,
                   proverLog>>

\* Stats.compute, line 122
Compute ==
    /\ pc = "compute"
    /\ LET r == to_zkvm_input(stats[1]) IN
       IF r.ok
       THEN /\ params' = <<r.val>>
            /\ pc' = "docker_ps"
            /\ err' = err
       ELSE /\ params' = params
            /\ Fail("ValueError")
    /\ UNCHANGED <<target_contract_address, stats, parts, proverCalls,
                   proverArgs, computation, other_inputs, txCount, txArgs,
                   txStatus, callArgs, callResult, signed_tx, receipt,
                   certified,
                   proverLog>>

\* What `docker ps` may answer.
DockerPs == {"returncode", "empty", "no_zokrates", "zokrates"}

\* get_zokrates_container_name without the test for an empty listing.
get_zokrates_container_name_NoEmptyCheck(ps) == ps \in {"zokrates", "empty"}

\* Docker.get_zokrates_container_name: a name only when a line names zokrates.
get_zokrates_container_name(ps) == ps = "zokrates"

\* Docker.run_compute_witness, line 215
ContainerForWitness ==
    /\ pc = "docker_ps"
    /\ \E ps \in DockerPs :
          /\ proverLog' = Append(proverLog, <<"docker ps", ps>>)
          /\ IF get_zokrates_container_name(ps)
             THEN pc' = "exec" /\ err' = err
             ELSE Fail("RuntimeError: no running ZoKrates container")
    /\ UNCHANGED <<target_contract_address, stats, parts, params, proverCalls,
                   proverArgs, computation, other_inputs, txCount, txArgs,
                   txStatus, callArgs, callResult, signed_tx, receipt,
                   certified>>

\* Docker.run_compute_witness, lines 216-230
RunComputeWitness ==
    /\ pc = "exec"
    /\ proverCalls' = proverCalls + 1
    /\ proverArgs' = params
    /\ \E returncode \in {0, 1} :
          /\ proverLog' = Append(proverLog, <<"compute-witness", IF returncode = 0 THEN "ok" ELSE "failed">>)
          /\ IF returncode # 0
             THEN Fail("RuntimeError: compute-witness failed")
             ELSE pc' = "docker_ps_results" /\ err' = err
    /\ UNCHANGED <<target_contract_address, stats, parts, params, computation,
                   other_inputs, txCount, txArgs, txStatus, callArgs,
                   callResult, signed_tx, receipt, certified>>

\* Docker.get_results, line 235
ContainerForResults ==
    /\ pc = "docker_ps_results"
    /\ \E ps \in DockerPs :
          /\ proverLog' = Append(proverLog, <<"docker ps", ps>>)
          /\ IF get_zokrates_container_name(ps)
             THEN pc' = "cat" /\ err' = err
             ELSE Fail("RuntimeError: no running ZoKrates container")
    /\ UNCHANGED <<target_contract_address, stats, parts, params, proverCalls,
                   proverArgs, computation, other_inputs, txCount, txArgs,
                   txStatus, callArgs, callResult, signed_tx, receipt,
                   certified>>

\* Docker.get_results, lines 244-258: the Computation of a parsed document.
ParseResults(results) ==
    LET score == PyInt16(results.inputs[1])
        signature == PyInt16(results.inputs[2])
        address_part1 == PyInt16(results.inputs[3])
        address_part2 == PyInt16(results.inputs[4])
    IN  IF score.ok /\ signature.ok /\ address_part1.ok /\ address_part2.ok
        THEN Return([curve |-> results.curve,
                     proof |-> results.proof,
                     scheme |-> results.scheme,
                     inputs |-> [score |-> score.val,
                                 signature |-> signature.val,
                                 address_part1 |-> address_part1.val,
                                 address_part2 |-> address_part2.val]])
        ELSE Raise

\* Docker.get_results, lines 236-258
GetResults ==
    /\ pc = "cat"
    /\ \/ /\ Fail("RuntimeError: get-calculation failed")
          /\ proverLog' = Append(proverLog, <<"cat proof.json", "failed">>)
          /\ computation' = computation
       \/ /\ Fail("JSONDecodeError")
          /\ proverLog' = Append(proverLog, <<"cat proof.json", "empty">>)
          /\ computation' = computation
       \/ /\ proverLog' = Append(proverLog, <<"cat proof.json", "ok">>)
          /\ \E results \in ProverDocuments(proverArgs[1]) :
                LET r == ParseResults(results) IN
                IF r.ok
                THEN /\ computation' = <<r.val>>
                     /\ pc' = "reconcile"
                     /\ err' = err
                ELSE /\ computation' = computation
                     /\ Fail("ValueError")
    /\ UNCHANGED <<target_contract_address, stats, parts, params, proverCalls,
                   proverArgs, other_inputs, txCount, txArgs, txStatus,
                   callArgs, callResult, signed_tx, receipt, certified>>

\* The Inputs taken whole from the Computation.
Reconciled_TrustProver(c, s) ==
    [score |-> c.inputs.score,
     signature |-> c.inputs.signature,
     address_part1 |-> c.inputs.address_part1,
     address_part2 |-> c.inputs.address_part2]

\* main lines 352-357
Reconciled(c, s) ==
    [score |-> c.inputs.score,
     signature |-> c.inputs.signature,
     address_part1 |-> split_address(s).val[1],
     address_part2 |-> split_address(s).val[2]]

Reconcile ==
    /\ pc = "reconcile"
    /\ other_inputs' = <<Reconciled(computation[1], stats[1])>>
    /\ pc' = "build_transaction"
    /\ UNCHANGED <<target_contract_address, stats, parts, params, proverCalls,
                   proverArgs, computation, txCount, txArgs, txStatus,
                   callArgs, callResult, signed_tx, receipt, certified, err,
                   proverLog>>

\* Contract.verify, lines 269-280
BuildTransaction ==
    /\ pc = "build_transaction"
    /\ LET args == verifyTx_args(other_inputs[1], computation[1].proof) IN
       \/ /\ ~args.ok
          /\ Fail("ValueError")
          /\ signed_tx' = signed_tx
       \/ /\ args.ok
          /\ \E i \in 1..4 : ~IsUint256(args.val.inputs[i])
          /\ Fail("Web3ValidationError")
          /\ signed_tx' = signed_tx
       \/ /\ args.ok
          /\ Fail("RpcError")
          /\ signed_tx' = signed_tx
       \/ /\ args.ok
          /\ \A i \in 1..4 : IsUint256(args.val.inputs[i])
          /\ signed_tx' = <<args.val>>
          /\ pc' = "send_raw_transaction"
          /\ err' = err
    /\ UNCHANGED <<target_contract_address, stats, parts, params, proverCalls,
                   proverArgs, computation, other_inputs, txCount, txArgs,
                   txStatus, callArgs, callResult, receipt, certified,
                   proverLog>>

\* send_raw_transaction sent again when the first answer is lost.
SendRawTransaction_Retry ==
    /\ pc = "send_raw_transaction"
    /\ \/ /\ Fail("RpcError")
          /\ UNCHANGED <<txCount, txArgs>>
       \/ /\ txCount' = txCount + 2
          /\ txArgs' = signed_tx
          /\ Fail("Timeout")
       \/ /\ txCount' = txCount + 1
          /\ txArgs' = signed_tx
          /\ pc' = "wait_for_transaction_receipt"
          /\ err' = err
    /\ UNCHANGED <<target_contract_address, stats, parts, params, proverCalls,
                   proverArgs, computation, other_inputs, txStatus, callArgs,
                   callResult, signed_tx, receipt, certified, proverLog>>

\* Contract.verify, line 281
SendRawTransaction ==
    /\ pc = "send_raw_transaction"
    /\ \/ /\ Fail("RpcError")
          /\ UNCHANGED <<txCount, txArgs>>
       \/ /\ txCount' = txCount + 1
          /\ txArgs' = signed_tx
          /\ \/ Fail("Timeout")
             \/ pc' = "wait_for_transaction_receipt" /\ err' = err
    /\ UNCHANGED <<target_contract_address, stats, parts, params, proverCalls,
                   proverArgs, computation, other_inputs, txStatus, callArgs,
                   callResult, signed_tx, receipt, certified,
                   proverLog>>

\* Contract.verify, lines 282-284
WaitForTransactionReceipt ==
    /\ pc = "wait_for_transaction_receipt"
    /\ \/ /\ Fail("TimeExhausted")
          /\ txStatus' = txStatus
       \/ /\ \E status \in {0, 1} : txStatus' = <<status>>
          /\ pc' = "call"
          /\ err' = err
    /\ UNCHANGED <<target_contract_address, stats, parts, params, proverCalls,
                   proverArgs, computation, other_inputs, txCount, txArgs,
                   callArgs, callResult, signed_tx, receipt, certified,
                   proverLog>>

\* verify returning the status of the receipt instead of the call's answer.
VerifyCall_FromReceipt ==
    /\ pc = "call"
    /\ callArgs' = <<verifyTx_args(other_inputs[1], computation[1].proof).val>>
    /\ \/ /\ Fail("ContractCallError")
          /\ UNCHANGED <<callResult, receipt>>
       \/ /\ \E answer \in BOOLEAN : callResult' = <<answer>>
          /\ receipt' = <<txStatus[1] = 1>>
          /\ pc' = "report"
          /\ err' = err
    /\ UNCHANGED <<target_contract_address, stats, parts, params, proverCalls,
                   proverArgs, computation, other_inputs, txCount, txArgs,
                   txStatus, signed_tx, certified, proverLog>>

\* Contract.verify, line 285
VerifyCall ==
    /\ pc = "call"
    /\ callArgs' = <<verifyTx_args(other_inputs[1], computation[1].proof).val>>
    /\ \/ /\ Fail("ContractCallError")
          /\ UNCHANGED <<callResult, receipt>>
       \/ /\ \E answer \in BOOLEAN :
                /\ callResult' = <<answer>>
                /\ receipt' = <<answer>>
          /\ pc' = "report"
          /\ err' = err
    /\ UNCHANGED <<target_contract_address, stats, parts, params, proverCalls,
                   proverArgs, computation, other_inputs, txCount, txArgs,
                   txStatus, signed_tx, certified,
                   proverLog>>

\* main without the raise of line 365.
Report_NoRaise ==
    /\ pc = "report"
    /\ certified' = receipt
    /\ pc' = "done"
    /\ UNCHANGED <<target_contract_address, stats, parts, params, proverCalls,
                   proverArgs, computation, other_inputs, txCount, txArgs,
                   txStatus, callArgs, callResult, signed_tx, receipt, err,
                   proverLog>>

\* main lines 360-365
Report ==
    /\ pc = "report"
    /\ certified' = receipt
    /\ IF ~receipt[1]
       THEN Fail("RuntimeError: proof verification failed")
       ELSE pc' = "done" /\ err' = err
    /\ UNCHANGED <<target_contract_address, stats, parts, params, proverCalls,
                   proverArgs, computation, other_inputs, txCount, txArgs,
                   txStatus, callArgs, callResult, signed_tx, receipt,
                   proverLog>>

Next ==
    \/ MainAssert
    \/ FetchFacts
    \/ Compute
    \/ ContainerForWitness
    \/ RunComputeWitness
    \/ ContainerForResults
    \/ GetResults
    \/ Reconcile
    \/ BuildTransaction
    \/ SendRawTransaction
    \/ WaitForTransactionReceipt
    \/ VerifyCall
    \/ Report

Spec == Init /\ [][Next]_vars

(***************************************************************************)
(* The reference split of the docstring of Stats.split_address             *)
(***************************************************************************)
\* n >> (4 * digits)
ShiftRight(n, digits) ==
    IF Len(n) <= digits THEN << >> ELSE SubSeq(n, 1, Len(n) - digits)

\* n & ((1 << (4 * digits)) - 1)
LowBits(n, digits) ==
    IF Len(n) <= digits THEN n
    ELSE Normalize(SubSeq(n, Len(n) - digits + 1, Len(n)))

\* splitAddress: 80 bits are 20 hexadecimal digits.
splitAddress(addrInt) == <<ShiftRight(addrInt, 20), LowBits(addrInt, 20)>>

(***************************************************************************)
(* Properties                                                              *)
(***************************************************************************)
IsAddress40(s) == Len(s) = 40 /\ \A i \in 1..Len(s) : IsHexChar(s[i])

SubmittedInputs(c, f) ==
    <<c.inputs.score, c.inputs.signature,
      split_address(f).val[1], split_address(f).val[2]>>

\* C1: the public inputs built for, sent in and called with the verifier carry
\* the address halves recomputed from the FactSet and the prover's score and
\* signature; whatever address halves the Computation claims, the same inputs
\* are built.
C1_SubmitsRecomputedAddress ==
    /\ other_inputs # << >> =>
          /\ Inputs_to_solidity(other_inputs[1])
                = SubmittedInputs(computation[1], stats[1])
          /\ \A ad \in AddressStrings(params[1]) :
                Reconciled([computation[1] EXCEPT
                                !.inputs.address_part1 = PyInt16(ad[1]).val,
                                !.inputs.address_part2 = PyInt16(ad[2]).val],
                           stats[1]) = other_inputs[1]
    /\ signed_tx # << >> =>
          signed_tx[1].inputs = SubmittedInputs(computation[1], stats[1])
    /\ txArgs # << >> =>
          txArgs[1].inputs = SubmittedInputs(computation[1], stats[1])
    /\ callArgs # << >> =>
          callArgs[1].inputs = SubmittedInputs(computation[1], stats[1])

\* A transaction went out although the prover claimed other address halves.
C1_Witness ==
    /\ txArgs # << >>
    /\ computation[1].inputs.address_part1 # split_address(stats[1]).val[1]
    /\ computation[1].inputs.address_part2 # split_address(stats[1]).val[2]

\* C2: an address that is not exactly 40 hexadecimal digits yields no prover
\* input vector and no prover invocation.
C2_RejectsOtherLengths ==
    ~IsAddress40(target_contract_address) =>
        /\ params = << >>
        /\ proverCalls = 0

\* C3 as claimed: after the verifier's read-only check answered false the run
\* does not end with an error.
C3_RejectionIsNoError ==
    callResult = <<FALSE>> => pc # "error"

\* C3 as the code has it: verify returns false without raising, main prints
\* Certified: False and then ends with the RuntimeError of line 365, which no
\* other failure of the run raises.
C3_RejectionRaisesAfterReport ==
    /\ callResult = <<FALSE>> =>
          /\ receipt = <<FALSE>>
          /\ pc \in {"report", "error"}
          /\ pc = "error" =>
                /\ err = "RuntimeError: proof verification failed"
                /\ certified = <<FALSE>>
    /\ err = "RuntimeError: proof verification failed" =>
          /\ callResult = <<FALSE>>
          /\ pc = "error"

C3_Witness ==
    /\ callResult = <<FALSE>>
    /\ pc = "error"
    /\ certified = <<FALSE>>

\* C4 as claimed: at most one transaction, and no run ends with an error once
\* the transaction has been sent.
C4_NoErrorAfterSubmission ==
    /\ txCount <= 1
    /\ pc = "error" => txCount = 0

AfterSubmissionErrors ==
    {"Timeout", "TimeExhausted", "ContractCallError",
     "RuntimeError: proof verification failed"}

\* C4 as the code has it: at most one transaction per run; a run that ends
\* with an error raised before send_raw_transaction has sent nothing; a run
\* with its transaction sent ends done with the verifier's acceptance, or with
\* an error of send_raw_transaction's lost answer, of the wait for the
\* receipt, of the read-only call or of the rejection.
C4_SubmissionAtMostOnce ==
    /\ txCount <= 1
    /\ (pc = "error" /\ err \notin AfterSubmissionErrors) => txCount = 0
    /\ (pc = "error" /\ txCount = 1) => err \in AfterSubmissionErrors
    /\ txCount = 1 => signed_tx # << >> /\ txArgs = signed_tx
    /\ pc = "done" => txCount = 1 /\ receipt = <<TRUE>>

C4_Witness ==
    /\ pc = "error"
    /\ err = "TimeExhausted"
    /\ txCount = 1

\* C5: to_zkvm_input returns the 8 elements address_part1, address_part2,
\* days_ago_added, is_active as 0 or 1, volume, market_cap, total_supply,
\* has_source_code as 0 or 1, the address parts being split_address's, and
\* name and symbol have no influence on it.
C5_EncodeVector ==
    pc = "encoded" =>
        LET f == stats[1]
            v == params[1]
        IN  /\ Len(v) = 8
            /\ split_address(f).ok
            /\ v[1] = split_address(f).val[1]
            /\ v[2] = split_address(f).val[2]
            /\ v[3] = f.days_ago_added
            /\ v[4] = IF f.is_active THEN PyNat(1) ELSE PyNat(0)
            /\ v[5] = f.volume
            /\ v[6] = f.market_cap
            /\ v[7] = f.total_supply
            /\ v[8] = IF f.has_source_code THEN PyNat(1) ELSE PyNat(0)
            /\ \A n \in {"Lombard Bitcoin", "Other"}, sy \in {"LBTC", "OTH"} :
                  to_zkvm_input([f EXCEPT !.name = n, !.symbol = sy])
                      = Return(v)

C5_Witness ==
    /\ pc = "encoded"
    /\ ~stats[1].is_active
    /\ stats[1].has_source_code
    /\ stats[1].name = "Other"
    /\ stats[1].total_supply = TwoTo64
    /\ IsAddress40(stats[1].contract_address)

\* C6: on a 40-digit address split_address returns the values of the first
\* and of the last 20 digits, which are address >> 80 and address mod 2^80,
\* and no other 40-digit address has the same pair.
C6_Split40 ==
    LET s == stats[1].contract_address IN
    (pc \in {"split_returned", "raised"} /\ IsAddress40(s)) =>
        /\ pc = "split_returned"
        /\ parts[1] = <<PyInt16(SubSeq(s, 1, 20)).val,
                        PyInt16(SubSeq(s, 21, 40)).val>>
        /\ parts[1] = splitAddress(PyInt16(s).val)
        /\ \A t \in Addresses40 :
              split_address([stats[1] EXCEPT !.contract_address = t])
                  = Return(parts[1]) => t = s

C6_Witness ==
    /\ pc = "split_returned"
    /\ IsAddress40(stats[1].contract_address)
    /\ Len(parts[1][1]) = 20
    /\ Len(parts[1][2]) = 20

\* The FactSet of the scenario: 38 digits, 37 zeros and a one.
IsScenarioFactSet(f) ==
    /\ f.contract_address = Address38
    /\ Len(f.contract_address) = 38
    /\ f.total_supply = PyNat(1000)
    /\ f.days_ago_added = PyNat(10)
    /\ f.is_active
    /\ f.volume = PyNat(500)
    /\ f.market_cap = PyNat(2000)
    /\ f.has_source_code

\* C7: the scenario's FactSet encodes, without an error, to
\* [0, 1, 10, 1, 500, 2000, 1000, 1].
C7_Scenario ==
    IsScenarioFactSet(stats[1]) =>
        /\ pc # "raised"
        /\ pc = "encoded" =>
              params[1] = <<PyNat(0), PyNat(1), PyNat(10), PyNat(1),
                            PyNat(500), PyNat(2000), PyNat(1000), PyNat(1)>>

C7_Witness ==
    /\ IsScenarioFactSet(stats[1])
    /\ pc = "encoded"

ProverFailures ==
    {<<"docker ps", "returncode">>, <<"docker ps", "empty">>,
     <<"docker ps", "no_zokrates">>, <<"compute-witness", "failed">>,
     <<"cat proof.json", "failed">>, <<"cat proof.json", "empty">>}

ProverErrors ==
    {"RuntimeError: no running ZoKrates container",
     "RuntimeError: compute-witness failed",
     "RuntimeError: get-calculation failed",
     "JSONDecodeError"}

\* C8: once a docker command of the run has found no prover, has exited
\* non-zero or has answered nothing, the run has ended with the prover's
\* error: that command is the run's last, compute-witness has run at most
\* once, there is no Computation, nothing has been built or sent to the
\* verifier, and no step of the run is left to take.
C8_ProverFailureIsTerminal ==
    /\ proverCalls <= 1
    /\ \A i \in 1..Len(proverLog) :
          proverLog[i] \in ProverFailures =>
              /\ i = Len(proverLog)
              /\ pc = "error"
              /\ err \in ProverErrors
              /\ err = "JSONDecodeError" <=>
                    proverLog[i] = <<"cat proof.json", "empty">>
              /\ computation = << >>
              /\ signed_tx = << >>
              /\ txCount = 0
              /\ ~ENABLED Next

C8_Witness ==
    /\ Len(proverLog) = 3
    /\ proverLog[3] = <<"docker ps", "empty">>
    /\ proverCalls = 1
    /\ pc = "error"

\* C9: the read-only call is made only after the transaction has been sent,
\* with the transaction's arguments; what verify returns is the call's
\* answer, whatever the receipt's status; a failing call leaves no boolean.
C9_CallAfterTransaction ==
    /\ callArgs # << >> =>
          /\ txCount = 1
          /\ txStatus # << >>
          /\ callArgs = txArgs
    /\ receipt # << >> =>
          /\ callResult # << >>
          /\ receipt = callResult
    /\ err = "ContractCallError" =>
          /\ pc = "error"
          /\ receipt = << >>
          /\ callArgs # << >>

C9_Witness ==
    /\ receipt = <<TRUE>>
    /\ txStatus = <<0>>
    /\ callArgs = txArgs

\* C10: every public input sent to the verifier is below the scalar-field
\* prime.
C10_InputsBelowPrime ==
    txArgs # << >> =>
        \A i \in 1..4 : IntLess(txArgs[1].inputs[i], BN128_PRIME)

====
